---- MODULE Spec2Model ----
(***************************************************************************)
(* Model of .github/determine-version.py: one run of main() on sys.argv.   *)
(*                                                                         *)
(* A Python str is a sequence of characters; a character is a one-letter   *)
(* TLA+ string, except "U+0663" (ARABIC-INDIC DIGIT THREE), which stands   *)
(* for the decimal digits outside ASCII.  An output stream is the sequence *)
(* of what was written to it: a literal of the source is one element, an   *)
(* interpolated value contributes its characters one by one, and print()   *)
(* ends what it writes with the line feed "\n".                            *)
(***************************************************************************)
EXTENDS Integers, Sequences, FiniteSets, TLC

VARIABLES argv, pc, branch, version, m, longprekind, stdout, stderr, exit_code

vars == <<argv, pc, branch, version, m, longprekind, stdout, stderr, exit_code>>

(***************************************************************************)
(* Character classes of Python 3's str and re (Unicode aware by default).  *)
(***************************************************************************)
LF == "\n"

\* str.strip() without an argument removes the characters c with c.isspace().
Whitespace == {" ", LF}

\* [1-9] of the pattern.
NonZeroAsciiDigits == {"1", "2", "3", "4", "5", "6", "7", "8", "9"}

AsciiDigits == {"0"} \cup NonZeroAsciiDigits

\* \d of a str pattern compiled without re.ASCII: every character of Unicode
\* category Nd.
UnicodeDigits == AsciiDigits \cup {"U+0663"}

\* None, and the empty str: both are false in `x or y` and in `if x`.  No group
\* of shortform can match the empty string, so a group that is None is the
\* only group the model shows as <<>>.
None == <<>>

(***************************************************************************)
(* Bounds and the invocations explored.                                    *)
(***************************************************************************)
MaxFree == 4

MaxDigits == 2

FreeAlphabet == {"v", "0", "1", ".", "a", "U+0663", " ", LF}

RECURSIVE StringsUpTo(_, _)
StringsUpTo(alphabet, n) ==
    IF n = 0 THEN {<<>>}
    ELSE LET shorter == StringsUpTo(alphabet, n - 1)
         IN  shorter \cup {Append(s, c) : s \in shorter, c \in alphabet}

Prefixes == {<<>>, <<"v">>, <<"r", "e", "l", "e", "a", "s", "e", "/">>}

\* every short string, behind no prefix or one
FreeArgs == {p \o s : p \in Prefixes, s \in StringsUpTo(FreeAlphabet, MaxFree)}

DigitStrings == StringsUpTo({"0", "1"}, MaxDigits)

MicroParts == {<<>>} \cup {<<".">> \o d : d \in DigitStrings \ {<<>>}}

PreParts ==
    {<<>>} \cup {k \o d : k \in {<<"a">>, <<"b">>, <<"r", "c">>, <<"c">>},
                         d \in DigitStrings}

\* version-shaped strings, well formed or not, behind no, one or two prefixes
VersionArgs ==
    {p \o q \o <<major, ".", minor>> \o micro \o pre \o tail :
        p \in Prefixes, q \in Prefixes, major \in {"0", "1"}, minor \in {"0", "1"},
        micro \in MicroParts, pre \in PreParts, tail \in {<<>>, <<".", "1">>}}

Args == FreeArgs \cup VersionArgs

ScriptName == <<"determine-version.py">>

Invocations ==
    {ScriptName}
    \cup {ScriptName \o <<a>> : a \in Args}
    \cup {ScriptName \o <<a, b>> : a, b \in StringsUpTo(FreeAlphabet, 1)}

(***************************************************************************)
(* str methods.                                                            *)
(***************************************************************************)
lstrip(s) ==
    LET kept == {i \in 1..Len(s) : s[i] \notin Whitespace}
    IN  IF kept = {} THEN <<>>
        ELSE SubSeq(s, CHOOSE i \in kept : \A j \in kept : i <= j, Len(s))

strip(s) ==
    LET kept == {i \in 1..Len(s) : s[i] \notin Whitespace}
    IN  IF kept = {} THEN <<>>
        ELSE SubSeq(s, CHOOSE i \in kept : \A j \in kept : i <= j,
                       CHOOSE i \in kept : \A j \in kept : i >= j)

startswith(s, prefix) ==
    /\ Len(prefix) <= Len(s)
    /\ SubSeq(s, 1, Len(prefix)) = prefix

\* s[n:]
slice_from(s, n) == SubSeq(s, n + 1, Len(s))

(***************************************************************************)
(* The pattern of shortform, as re.X reads it (white space of the pattern  *)
(* is dropped): a tree of the nodes below.                                 *)
(***************************************************************************)
Chars(set) == [t |-> "chars", set |-> set]
Cat(items) == [t |-> "cat", items |-> items]
Alt(items) == [t |-> "alt", items |-> items]
Star(of) == [t |-> "star", of |-> of]
Opt(of) == [t |-> "opt", of |-> of]
Named(name, of) == [t |-> "named", name |-> name, of |-> of]
Bol == [t |-> "bol"]
Eol == [t |-> "eol"]

posint == Alt(<<Chars({"0"}), Cat(<<Chars(NonZeroAsciiDigits), Star(Chars(UnicodeDigits))>>)>>)

prekind_pattern_with_c == Alt(<<Chars({"a"}), Chars({"b"}), Cat(<<Chars({"r"}), Chars({"c"})>>), Chars({"c"})>>)

prekind_pattern == Alt(<<Chars({"a"}), Chars({"b"}), Cat(<<Chars({"r"}), Chars({"c"})>>)>>)

shortform ==
    Cat(<<Bol,
          Named("major", posint),
          Chars({"."}),
          Named("minor", posint),
          Opt(Cat(<<Chars({"."}), Named("micro", posint)>>)),
          Opt(Cat(<<Named("prekind", prekind_pattern), Named("preval", posint)>>)),
          Eol>>)

(***************************************************************************)
(* re's matching: a backtracking search.  Exec(re, s, st) is the sequence  *)
(* of the states [pos, groups] the search can leave the node `re` in when  *)
(* it enters it in state st, in the order the search tries them.           *)
(***************************************************************************)
RECURSIVE Exec(_, _, _), ExecEach(_, _, _), ExecItems(_, _, _), ExecAlt(_, _, _)

ExecEach(re, s, sts) ==
    IF sts = <<>> THEN <<>>
    ELSE Exec(re, s, Head(sts)) \o ExecEach(re, s, Tail(sts))

ExecItems(items, s, sts) ==
    IF items = <<>> THEN sts
    ELSE ExecItems(Tail(items), s, ExecEach(Head(items), s, sts))

ExecAlt(items, s, st) ==
    IF items = <<>> THEN <<>>
    ELSE Exec(Head(items), s, st) \o ExecAlt(Tail(items), s, st)

Exec(re, s, st) ==
    CASE re.t = "chars" ->
            IF st.pos <= Len(s) /\ s[st.pos] \in re.set
            THEN <<[st EXCEPT !.pos = @ + 1]>>
            ELSE <<>>
      [] re.t = "bol" -> IF st.pos = 1 THEN <<st>> ELSE <<>>
      [] re.t = "eol" ->
            \* $ without re.M: at the end, and before a line feed that ends the string
            IF \/ st.pos = Len(s) + 1
               \/ st.pos = Len(s) /\ s[Len(s)] = LF
            THEN <<st>>
            ELSE <<>>
      [] re.t = "cat" -> ExecItems(re.items, s, <<st>>)
      [] re.t = "alt" -> ExecAlt(re.items, s, st)
      [] re.t = "star" -> ExecEach(re, s, Exec(re.of, s, st)) \o <<st>>
      [] re.t = "opt" -> Exec(re.of, s, st) \o <<st>>
      [] re.t = "named" ->
            LET ends == Exec(re.of, s, st)
            IN  [i \in 1..Len(ends) |->
                    [ends[i] EXCEPT !.groups[re.name] = SubSeq(s, st.pos, ends[i].pos - 1)]]

NoGroups ==
    [major |-> None, minor |-> None, micro |-> None, prekind |-> None, preval |-> None]

\* what m is before line 47 binds it
Unbound == [state |-> "unbound", groups |-> NoGroups]

\* pattern.match(s): the first success of the search from position 0, or None
re_match(pattern, s) ==
    LET found == Exec(pattern, s, [pos |-> 1, groups |-> NoGroups])
    IN  IF found = <<>>
        THEN [state |-> "None", groups |-> NoGroups]
        ELSE [state |-> "match", groups |-> found[1].groups]

shortform_match(s) == re_match(shortform, s)

(***************************************************************************)
(* main()                                                                  *)
(***************************************************************************)
alpha == <<"a", "l", "p", "h", "a">>
beta == <<"b", "e", "t", "a">>
rc == <<"r", "c">>
dev == <<"d", "e", "v">>
release_slash == <<"r", "e", "l", "e", "a", "s", "e", "/">>

prerelease_kinds == (<<"a">> :> alpha) @@ (<<"b">> :> beta) @@ (rc :> rc)

\* dict.get(key, default)
dict_get(dict, key, default) ==
    IF key \in DOMAIN dict THEN dict[key] ELSE default

\* the message of lines 31-32; the model writes its two grave accents as '
ErrorMessage ==
    "error: branch name not passed as a sole argument. On GHA pass it as part of 'client_payload'."

SetOutputVersion == "::set-output name=version::"

\* what the print of lines 44 and 59 writes for a value
print_version(value) == <<SetOutputVersion>> \o value \o <<LF>>

\* the condition of line 29
bad_arguments(sys_argv) == Len(sys_argv) # 2 \/ strip(sys_argv[2]) = <<>>

has_prefix(b) == startswith(b, <<"v">>) \/ startswith(b, release_slash)

\* lines 39-42: the value of `version` that line 47 matches
strip_prefix_release_short(b) ==
    IF startswith(b, <<"v">>) THEN slice_from(b, 1)
    ELSE IF startswith(b, release_slash) THEN slice_from(b, Len(release_slash) - 1)
    ELSE b

strip_prefix_repeated(b) ==
    IF startswith(b, <<"v">>)
    THEN IF startswith(slice_from(b, 1), <<"v">>) THEN slice_from(b, 2) ELSE slice_from(b, 1)
    ELSE IF startswith(b, release_slash) THEN slice_from(b, Len(release_slash))
    ELSE b

strip_prefix(b) ==
    IF startswith(b, <<"v">>) THEN slice_from(b, 1)
    ELSE IF startswith(b, release_slash) THEN slice_from(b, Len(release_slash))
    ELSE b

\* line 56
long_kind(prekind) == dict_get(prerelease_kinds, prekind, dev)

\* lines 49-57: the value of `version` after a match
reassemble_micro_one(groups) ==
    groups.major \o <<".">> \o groups.minor \o <<".">>
        \o (IF groups.micro # None THEN groups.micro ELSE <<"1">>)
        \o (IF groups.prekind # None
            THEN <<"-">> \o long_kind(groups.prekind) \o <<".">> \o groups.preval
            ELSE <<>>)

reassemble_keeps_v(groups) ==
    <<"v">> \o groups.major \o <<".">> \o groups.minor \o <<".">>
        \o (IF groups.micro # None THEN groups.micro ELSE <<"0">>)
        \o (IF groups.prekind # None
            THEN <<"-">> \o long_kind(groups.prekind) \o <<".">> \o groups.preval
            ELSE <<>>)

reassemble(groups) ==
    groups.major \o <<".">> \o groups.minor \o <<".">>
        \o (IF groups.micro # None THEN groups.micro ELSE <<"0">>)
        \o (IF groups.prekind # None
            THEN <<"-">> \o long_kind(groups.prekind) \o <<".">> \o groups.preval
            ELSE <<>>)

\* lines 38-59 as a function of `branch`: the version main() prints
resolve(b) ==
    IF ~has_prefix(b) THEN b
    ELSE LET found == shortform_match(strip_prefix(b))
         IN  IF found.state = "match" THEN reassemble(found.groups) ELSE strip_prefix(b)

\* main() as a function of sys.argv: what one run leaves behind
run(sys_argv) ==
    IF bad_arguments(sys_argv)
    THEN [stdout |-> <<>>, stderr |-> <<ErrorMessage, LF>>, exit_code |-> 1]
    ELSE [stdout |-> print_version(resolve(strip(sys_argv[2]))), stderr |-> <<>>,
          exit_code |-> 0]

Running == 0 - 1

Init ==
    /\ argv \in Invocations
    /\ pc = "start"
    /\ branch = None
    /\ version = None
    /\ m = Unbound
    /\ longprekind = None
    /\ stdout = <<>>
    /\ stderr = <<>>
    /\ exit_code = Running

\* lines 29-38
CheckArguments ==
    /\ pc = "start"
    /\ IF bad_arguments(argv)
       THEN /\ stderr' = stderr \o <<ErrorMessage, LF>>
            /\ exit_code' = 1
            /\ pc' = "exited"
            /\ UNCHANGED branch
       ELSE /\ branch' = strip(argv[2])
            /\ pc' = "prefix"
            /\ UNCHANGED <<stderr, exit_code>>
    /\ UNCHANGED <<argv, version, m, longprekind, stdout>>

\* lines 39-45
StripPrefix ==
    /\ pc = "prefix"
    /\ IF has_prefix(branch)
       THEN /\ version' = strip_prefix(branch)
            /\ pc' = "match"
            /\ UNCHANGED <<stdout, exit_code>>
       ELSE /\ stdout' = stdout \o print_version(branch)
            /\ exit_code' = 0
            /\ pc' = "exited"
            /\ UNCHANGED version
    /\ UNCHANGED <<argv, branch, m, longprekind, stderr>>

\* lines 47-59
Normalize ==
    /\ pc = "match"
    /\ m' = shortform_match(version)
    /\ version' = IF m'.state = "match" THEN reassemble(m'.groups) ELSE version
    /\ longprekind' = IF m'.state = "match" /\ m'.groups.prekind # None
                      THEN long_kind(m'.groups.prekind)
                      ELSE longprekind
    /\ stdout' = stdout \o print_version(version')
    /\ exit_code' = 0
    /\ pc' = "exited"
    /\ UNCHANGED <<argv, branch, stderr>>

Next == CheckArguments \/ StripPrefix \/ Normalize

Spec == Init /\ [][Next]_vars

(***************************************************************************)
(* Vocabulary of the properties, stated without the operators above.       *)
(***************************************************************************)
Exited == pc = "exited"

\* the <value> of the line written to the output stream
Emitted == SubSeq(stdout, 2, Len(stdout) - 1)

OneArgument == Len(argv) = 2

AllWhitespace(s) == \A i \in 1..Len(s) : s[i] \in Whitespace

\* s[i..j] is s without the white space at its two ends
TrimmedAt(s, i, j) ==
    /\ AllWhitespace(SubSeq(s, 1, i - 1))
    /\ AllWhitespace(SubSeq(s, j + 1, Len(s)))
    /\ s[i] \notin Whitespace
    /\ s[j] \notin Whitespace

\* t, not empty, is s without the white space at its two ends
IsTrimmingOf(t, s) ==
    \E i \in 1..Len(s) : \E j \in i..Len(s) :
        TrimmedAt(s, i, j) /\ t = SubSeq(s, i, j)

\* a valid argument: the sole one, and not empty once trimmed
ValidArgument == OneArgument /\ ~AllWhitespace(argv[2])

StartsWithV(s) == s # <<>> /\ s[1] = "v"

StartsWithRelease(s) == Len(s) >= 8 /\ SubSeq(s, 1, 8) = release_slash

Prefixed(s) == StartsWithV(s) \/ StartsWithRelease(s)

\* what is left of a prefixed s without its prefix
Remainder(s) == IF StartsWithV(s) THEN Tail(s) ELSE SubSeq(s, 9, Len(s))

Kinds == {<<"a">>, <<"b">>, <<"r", "c">>}

At(s, p, piece) ==
    /\ p + Len(piece) - 1 <= Len(s)
    /\ SubSeq(s, p, p + Len(piece) - 1) = piece

\* the runs of decimal digits of s that start at p
DigitRunsAt(s, p) ==
    {SubSeq(s, p, q) : q \in {e \in p..Len(s) : \A k \in p..e : s[k] \in UnicodeDigits}}

MicroReadings(s, p) ==
    {None} \cup (IF At(s, p, <<".">>) THEN DigitRunsAt(s, p + 1) ELSE {})

PreReadings(s, p) ==
    {[kind |-> None, val |-> None]}
    \cup UNION {{[kind |-> k, val |-> v] : v \in DigitRunsAt(s, p + Len(k))} :
                   k \in {x \in Kinds : At(s, p, x)}}

Joined(r) ==
    r.major \o <<".">> \o r.minor
        \o (IF r.micro = None THEN <<>> ELSE <<".">> \o r.micro)
        \o r.prekind \o r.preval

\* the ways to read s as MAJOR . MINOR [. MICRO] [KIND PREVAL], each of the
\* four tokens a run of digits
Readings(s) ==
    LET after_minor(ma, mi) == Len(ma) + Len(mi) + 2
        after_micro(ma, mi, mc) ==
            after_minor(ma, mi) + (IF mc = None THEN 0 ELSE Len(mc) + 1)
        candidates ==
            UNION {UNION {UNION {
                {[major |-> ma, minor |-> mi, micro |-> mc,
                  prekind |-> pre.kind, preval |-> pre.val] :
                    pre \in PreReadings(s, after_micro(ma, mi, mc))} :
                mc \in MicroReadings(s, after_minor(ma, mi))} :
                mi \in DigitRunsAt(s, Len(ma) + 2)} :
                ma \in {x \in DigitRunsAt(s, 1) : At(s, Len(x) + 1, <<".">>)}}
    IN  {r \in candidates : Joined(r) = s}

\* the integer format: "0", or a digit of 1-9 followed by digits of 0-9
IsIntegerToken(t) ==
    \/ t = <<"0">>
    \/ /\ t # <<>>
       /\ t[1] \in NonZeroAsciiDigits
       /\ \A k \in 2..Len(t) : t[k] \in AsciiDigits

WellFormed(r) ==
    /\ IsIntegerToken(r.major)
    /\ IsIntegerToken(r.minor)
    /\ r.micro # None => IsIntegerToken(r.micro)
    /\ r.prekind # None => IsIntegerToken(r.preval)

\* s matches the short-form grammar
ShortForm(s) == \E r \in Readings(s) : WellFormed(r)

LongForm(kind) ==
    CASE kind = <<"a">> -> alpha
      [] kind = <<"b">> -> beta
      [] kind = <<"r", "c">> -> rc

Canonical(r) ==
    r.major \o <<".">> \o r.minor \o <<".">>
        \o (IF r.micro = None THEN <<"0">> ELSE r.micro)
        \o (IF r.prekind = None THEN <<>>
            ELSE <<"-">> \o LongForm(r.prekind) \o <<".">> \o r.preval)

\* run() is main() in one step: every finished run left what run(argv) says
RunAgrees ==
    Exited => run(argv) = [stdout |-> stdout, stderr |-> stderr, exit_code |-> exit_code]

\* the search for shortform never has a second way to succeed
MatchUnambiguous ==
    pc = "match" =>
        Len(Exec(shortform, version, [pos |-> 1, groups |-> NoGroups])) <= 1

(***************************************************************************)
(* The claims.                                                             *)
(***************************************************************************)

\* C1: when the trimmed argument starts with `v` or `release/` and what follows
\* the prefix matches the short-form grammar, the emitted version is
\* MAJOR.MINOR.MICRO with the tokens as read and MICRO `0` when absent,
\* followed by -KIND.PREVAL exactly when a prerelease suffix was read, KIND
\* being alpha for a, beta for b and rc for rc.
C1_NormalizedForm ==
    (Exited /\ ValidArgument /\ Prefixed(branch)) =>
        \A r \in Readings(Remainder(branch)) :
            WellFormed(r) => exit_code = 0 /\ Emitted = Canonical(r)

\* `v1.0rc1` was run and gave `1.0.0-rc.1`: micro defaulted, suffix expanded
C1_Witness ==
    /\ Exited
    /\ OneArgument
    /\ argv[2] = <<"v", "1", ".", "0", "r", "c", "1">>
    /\ ShortForm(Remainder(branch))
    /\ Emitted = <<"1", ".", "0", ".", "0", "-", "r", "c", ".", "1">>

\* C2: a valid argument whose trimmed value starts with neither `v` nor
\* `release/` is emitted trimmed and otherwise unchanged, and the grammar is
\* never applied to it, also when it matches the grammar itself.
C2_PassThroughWithoutPrefix ==
    /\ pc = "match" => Prefixed(branch)
    /\ (Exited /\ ValidArgument) =>
          \A i \in 1..Len(argv[2]) : \A j \in i..Len(argv[2]) :
              (TrimmedAt(argv[2], i, j) /\ ~Prefixed(SubSeq(argv[2], i, j))) =>
                  /\ stdout = <<SetOutputVersion>> \o SubSeq(argv[2], i, j) \o <<LF>>
                  /\ exit_code = 0
                  /\ m = Unbound

\* `1.0rc1`, which matches the grammar, was run and came out as it went in
C2_Witness ==
    /\ Exited
    /\ OneArgument
    /\ argv[2] = <<"1", ".", "0", "r", "c", "1">>
    /\ ShortForm(argv[2])
    /\ Emitted = argv[2]
    /\ m = Unbound

\* C3: a valid argument whose trimmed value starts with `v` or `release/` and
\* whose remainder does not match the short-form grammar succeeds (exit code
\* 0, nothing on the error stream) and emits the remainder verbatim.
C3_PassThroughOfRemainder ==
    (Exited /\ ValidArgument /\ Prefixed(branch) /\ ~ShortForm(Remainder(branch))) =>
        /\ exit_code = 0
        /\ stderr = <<>>
        /\ Emitted = Remainder(branch)

\* C4: every run ends, and ends either in failure (exit code 1, the error
\* message on the error stream, nothing on the output stream) or in success
\* (exit code 0, exactly one line `::set-output name=version::<value>` on the
\* output stream, nothing on the error stream); it fails exactly when there
\* is not exactly one argument or the argument is empty or all white space.
OutputLines == Cardinality({i \in 1..Len(stdout) : stdout[i] = LF})

Failure == exit_code = 1 /\ stderr = <<ErrorMessage, LF>> /\ stdout = <<>>

Success ==
    /\ exit_code = 0
    /\ stderr = <<>>
    /\ Len(stdout) >= 2
    /\ stdout[1] = SetOutputVersion
    /\ stdout[Len(stdout)] = LF

C4_TwoOutcomes ==
    /\ ~Exited => ENABLED Next
    /\ Exited =>
          /\ Failure \/ (Success /\ OutputLines = 1)
          /\ Failure <=> ~ValidArgument

\* C5: the matcher accepts a remainder exactly when it is, as a whole,
\* MAJOR . MINOR, then optionally . MICRO, then optionally one of a, b, rc and
\* PREVAL, each token being `0` or a nonzero digit followed by digits.
C5_MatcherIsGrammar ==
    (Exited /\ m # Unbound) => (m.state = "match" <=> ShortForm(Remainder(branch)))

\* C6: when the remainder matched, the emitted version has no recognized
\* prefix and running the resolver on it emits it again.
C6_NormalizedIsFixedPoint ==
    (Exited /\ m.state = "match") =>
        /\ ~Prefixed(Emitted)
        /\ run(ScriptName \o <<Emitted>>) =
              [stdout |-> stdout, stderr |-> <<>>, exit_code |-> 0]

\* `release/1.1.0b1` matched and gave `1.1.0-beta.1`
C6_Witness ==
    /\ Exited
    /\ m.state = "match"
    /\ OneArgument
    /\ argv[2] = release_slash \o <<"1", ".", "1", ".", "0", "b", "1">>
    /\ Emitted = <<"1", ".", "1", ".", "0", "-">> \o beta \o <<".", "1">>

\* C7: the long kind `dev` is never emitted: whenever a prerelease suffix is
\* appended, the marker read is a, b or rc and the long kind appended is
\* alpha, beta or rc.
C7_NoDev ==
    /\ longprekind \in {None, alpha, beta, rc}
    /\ (Exited /\ m.state = "match" /\ m.groups.prekind # None) =>
          /\ m.groups.prekind \in DOMAIN prerelease_kinds
          /\ longprekind \in {alpha, beta, rc}
          /\ \E head \in {SubSeq(Emitted, 1, k) : k \in 1..Len(Emitted)} :
                Emitted = head \o <<"-">> \o longprekind \o <<".">> \o m.groups.preval

\* a suffix was appended, with the long kind beta
C7_Witness == Exited /\ m.state = "match" /\ longprekind = beta

\* C8: exactly one prefix is removed, once, `v` first: what is handed to the
\* grammar is the trimmed argument without its first character when that is
\* `v`, and without its first eight when it starts with `release/`; the
\* remainder is not stripped of a second prefix nor trimmed again, and is
\* emitted as it is when it does not match.
C8_OnePrefixOnce ==
    /\ pc = "match" =>
          /\ IsTrimmingOf(branch, argv[2])
          /\ StartsWithV(branch) => version = Tail(branch)
          /\ ~StartsWithV(branch) =>
                /\ StartsWithRelease(branch)
                /\ release_slash \o version = branch
    /\ (Exited /\ m.state = "None") => Emitted = Remainder(branch)

\* `vrelease/1.1` was run and gave `release/1.1`
C8_Witness ==
    /\ Exited
    /\ OneArgument
    /\ argv[2] = <<"v">> \o release_slash \o <<"1", ".", "1">>
    /\ Emitted = release_slash \o <<"1", ".", "1">>

\* C9, as claimed: every emitted version is a valid argument that the
\* resolver emits unchanged.
FixedPoint(value) ==
    run(ScriptName \o <<value>>) =
        [stdout |-> <<SetOutputVersion>> \o value \o <<LF>>, stderr |-> <<>>,
         exit_code |-> 0]

C9_EveryOutputIsFixedPoint ==
    (Exited /\ exit_code = 0) => FixedPoint(Emitted)

\* C9, amended: an emitted version is a fixed point of the resolver exactly
\* when it is not empty, has no white space at either end and does not start
\* with `v` or `release/`; that is so for every branch without a recognized
\* prefix and for every one whose remainder matched.
C9_FixedPointExactly ==
    (Exited /\ exit_code = 0) =>
        /\ FixedPoint(Emitted) <=>
              /\ IsTrimmingOf(Emitted, Emitted)
              /\ ~Prefixed(Emitted)
        /\ (~Prefixed(branch) \/ m.state = "match") => FixedPoint(Emitted)

\* `vv1.1` gave `v1.1`, which the resolver does not emit unchanged
C9_Witness ==
    /\ Exited
    /\ OneArgument
    /\ argv[2] = <<"v", "v", "1", ".", "1">>
    /\ Emitted = <<"v", "1", ".", "1">>
    /\ ~FixedPoint(Emitted)

\* C10: the arguments `v`s and `release/`s end alike, with the same exit code
\* and the same streams, whatever s is.
C10_PrefixesInterchangeable ==
    (Exited /\ OneArgument) =>
        /\ StartsWithV(argv[2]) =>
              run(ScriptName \o <<release_slash \o Tail(argv[2])>>) =
                  [stdout |-> stdout, stderr |-> stderr, exit_code |-> exit_code]
        /\ StartsWithRelease(argv[2]) =>
              run(ScriptName \o <<<<"v">> \o SubSeq(argv[2], 9, Len(argv[2]))>>) =
                  [stdout |-> stdout, stderr |-> stderr, exit_code |-> exit_code]

\* `release/1.1` was run and gave `1.1.0`, as `v1.1` does
C10_Witness ==
    /\ Exited
    /\ OneArgument
    /\ argv[2] = release_slash \o <<"1", ".", "1">>
    /\ Emitted = <<"1", ".", "1", ".", "0">>

\* Up to line breaks inside the value the two outcomes are as described: a
\* success writes once, and what it writes is one line exactly when the
\* trimmed argument has no line feed in it.
OutcomesUpToLineBreaks ==
    Exited =>
        /\ Failure \/ Success
        /\ Failure <=> ~ValidArgument
        /\ Success => (OutputLines = 1 <=> \A i \in 1..Len(Emitted) : Emitted[i] # LF)

\* What the matcher accepts: the grammar with \d for the digits after the
\* first of a token; on remainders made of ASCII it is the grammar itself.
IsPosintToken(t) ==
    \/ t = <<"0">>
    \/ /\ t # <<>>
       /\ t[1] \in NonZeroAsciiDigits
       /\ \A k \in 2..Len(t) : t[k] \in UnicodeDigits

MatcherAccepts ==
    (Exited /\ m # Unbound) =>
        /\ m.state = "match" <=>
              \E r \in Readings(Remainder(branch)) :
                  /\ IsPosintToken(r.major)
                  /\ IsPosintToken(r.minor)
                  /\ r.micro # None => IsPosintToken(r.micro)
                  /\ r.prekind # None => IsPosintToken(r.preval)
        /\ (\A i \in 1..Len(branch) : branch[i] # "U+0663") =>
              (m.state = "match" <=> ShortForm(Remainder(branch)))

====
